---- MODULE Spec2Model ----
(***************************************************************************)
(* Order management backend (dc-server): the order routes, the auth        *)
(* middleware in front of them, the notification fan-out and the database  *)
(* triggers and cascades of the orders, notifications and user_profiles    *)
(* tables.                                                                 *)
(***************************************************************************)
EXTENDS Integers, FiniteSets, Sequences, TLC

\* ------------------------------------------------------------------ bounds
MaxOrders == 1
MaxTime == 1
MaxNotifications == 4
MaxHistory == 2

\* ------------------------------------------------------------ value spaces
\* text values: a key absent from a JSON body, and SQL NULL / JSON null
Undefined == "undefined"
NULL == "null"
\* timestamp values are integers: the same two markers for a timestamp, and
\* a timestamp a client puts in a payload, which no server clock value equals
UndefinedTime == 0 - 2
NullTime == 0 - 1
ClientTime == MaxTime + 1
\* a NULL reference to a row
NullId == 0

NoRow == "no row"
NoToken == "no token"

UserIds == {"u1", "u2", "u3"}
\* who sends requests: nobody (no bearer token), u1 and u3
Callers == {NoToken, "u1", "u3"}
OrderIds == 1..MaxOrders
Times == 0..MaxTime

Statuses == {"incoming", "accepted", "declined", "pending", "completed"}

\* OrderUpdate: the text keys a PUT body is read for (completed_at apart)
TextFields ==
  {"customer_name", "order_details", "location", "phone_number", "pickup_date",
   "meta_business_link", "image", "status"}

\* JavaScript truthiness of a text value
Truthy(v) == v \notin {Undefined, NULL, ""}

\* a || b
OrElse(a, b) == IF Truthy(a) THEN a ELSE b

\* String.prototype.toUpperCase on the status strings
ToUpperCase(s) ==
  CASE s = "incoming" -> "INCOMING"
    [] s = "accepted" -> "ACCEPTED"
    [] s = "declined" -> "DECLINED"
    [] s = "pending" -> "PENDING"
    [] s = "completed" -> "COMPLETED"
    [] OTHER -> s

\* ------------------------------------------------------------------- state
VARIABLES
  supabaseAdmin,   \* TRUE iff the service-role client was constructed
  storeFaults,     \* TRUE iff calls to the external services may fail
  authUsers,       \* auth.users: the identities the provider knows
  profiles,        \* user_profiles: id -> role, or NoRow
  orders,          \* orders: id -> row, or NoRow
  nextOrderId,     \* the id gen_random_uuid() hands to the next order
  notifications,   \* notifications: a set of rows
  nextNotificationId,
  now,             \* the database clock, NOW()
  history,         \* order_history: a set of rows
  nextHistoryId,
  session,         \* the identity the shared anon-key client is signed in as
  retry,           \* the retry loop in progress around an external call
  usernames,       \* user_profiles.username: id -> username, or NoRow
  inflight,        \* the requests being handled between two of their store calls
  res              \* the request the last step handled and its response

vars ==
  <<supabaseAdmin, storeFaults, authUsers, profiles, orders, nextOrderId,
    notifications, nextNotificationId, now, history, nextHistoryId, session, retry,
    usernames, inflight, res>>

\* the usernames the first three identities signed up with
UsernameOf(u) == CASE u = "u1" -> "ann" [] u = "u2" -> "bob" [] OTHER -> "vic"

\* the requests that may be under way at the same time
MaxRequests == 2

Requests == 1..MaxRequests

\* --------------------------------------------------------- request bodies
\* the keys of a body that are not undefined
Present(body) ==
  {f \in DOMAIN body \ {"completed_at"} : body[f] # Undefined}
    \cup (IF "completed_at" \in DOMAIN body /\ body.completed_at # UndefinedTime
          THEN {"completed_at"} ELSE {})

\* the PUT bodies the model sends
UpdateBodies ==
  [customer_name : {Undefined},
   order_details : {Undefined},
   location : {Undefined, "Main St"},
   phone_number : {Undefined},
   pickup_date : {Undefined},
   meta_business_link : {Undefined},
   image : {Undefined},
   status : {Undefined} \cup Statuses,
   completed_at : {UndefinedTime, ClientTime}]

\* the PUT bodies that carry a status and nothing else, for two of the statuses
MoveBodies ==
  {b \in UpdateBodies : Present(b) = {"status"} /\ b.status \in {"pending", "completed"}}

\* the PUT bodies that rewrite the two required texts, with or without a move
EditBodies ==
  [customer_name : {Undefined, "", "Ann"},
   order_details : {Undefined, ""},
   location : {Undefined},
   phone_number : {Undefined},
   pickup_date : {Undefined},
   meta_business_link : {Undefined},
   image : {Undefined},
   status : {Undefined, "pending"},
   completed_at : {UndefinedTime}]

\* the POST bodies the model sends
InsertBodies ==
  [customer_name : {Undefined, "", "Jane"},
   order_details : {Undefined, "2kg vanilla"},
   location : {Undefined},
   phone_number : {Undefined},
   pickup_date : {Undefined},
   meta_business_link : {Undefined},
   image : {Undefined},
   status : {Undefined, "pending", "completed"}]

\* the POST bodies that are valid and leave the status to its default
PlainInsertBodies ==
  {b \in InsertBodies :
     Truthy(b.customer_name) /\ Truthy(b.order_details) /\ b.status = Undefined}

\* ------------------------------------------------------- store outcomes
\* what a call to an external service can come back with
Outcomes(failures) == IF storeFaults THEN {"ok"} \cup failures ELSE {"ok"}

\* every call of a request succeeding
AllOk == [auth |-> "ok", read |-> "ok", write |-> "ok", lookup |-> "ok", insert |-> "ok"]

MaxFaults == 1

\* the outcomes of the calls a request makes: the profile lookup of
\* authenticate, the read of the old order, the write, and the admin lookup
\* and the insert of the fan-out
Envs ==
  {e \in [auth : Outcomes({"error", "recursion"}),
          read : Outcomes({"error"}),
          write : Outcomes({"error"}),
          lookup : Outcomes({"error", "throw"}),
          insert : Outcomes({"error", "throw"})] :
     Cardinality({k \in DOMAIN e : e[k] # "ok"}) <= MaxFaults}

\* ------------------------------------------------------------- responses
\* a request without a JSON body: every key reads undefined
NoBody ==
  [customer_name |-> Undefined, order_details |-> Undefined, location |-> Undefined,
   phone_number |-> Undefined, pickup_date |-> Undefined,
   meta_business_link |-> Undefined, image |-> Undefined, status |-> Undefined,
   completed_at |-> UndefinedTime]

\* the outcomes of the calls a request made; a call it never made counts as ok
Made(env, calls) == [k \in DOMAIN env |-> IF k \in calls THEN env[k] ELSE "ok"]

\* the last request as its handler read it, and the response: order is the
\* row the response carries, <<row>>, or <<>>
Response(op, caller, role, id, body, env, code, order) ==
  [op |-> op, caller |-> caller, role |-> role, id |-> id, body |-> body,
   env |-> env, code |-> code, order |-> order]

Idle == Response("none", NoToken, "none", 0, NoBody, AllOk, 0, <<>>)

\* a request that is not an orders request, as res records it
Plain(op, caller, role, code) ==
  Response(op, caller, role, 0, NoBody, AllOk, code, <<>>)

\* ------------------------------------------------------------ middleware
\* an authenticate that refuses an identity without a profile row
AuthenticateStrict(caller, env) ==
  IF caller = NoToken \/ caller \notin authUsers
    THEN [code |-> 401, role |-> "none", calls |-> {}]
  ELSE IF ~supabaseAdmin
    THEN [code |-> 500, role |-> "none", calls |-> {}]
  ELSE IF env.auth = "recursion"
    THEN [code |-> 500, role |-> "none", calls |-> {"auth"}]
  ELSE IF env.auth = "error" \/ profiles[caller] = NoRow
    THEN [code |-> 401, role |-> "none", calls |-> {"auth"}]
  ELSE [code |-> 0, role |-> profiles[caller], calls |-> {"auth"}]

\* an authenticate that trusts the caller when it cannot read the profile
AuthenticateFailOpen(caller, env) ==
  IF caller = NoToken \/ caller \notin authUsers
    THEN [code |-> 401, role |-> "none", calls |-> {}]
  ELSE IF ~supabaseAdmin
    THEN [code |-> 500, role |-> "none", calls |-> {}]
  ELSE IF env.auth = "recursion"
    THEN [code |-> 500, role |-> "none", calls |-> {"auth"}]
  ELSE IF env.auth = "error" \/ profiles[caller] = NoRow
    THEN [code |-> 0, role |-> "admin", calls |-> {"auth"}]
  ELSE [code |-> 0, role |-> profiles[caller], calls |-> {"auth"}]

\* authenticate: the status it answers with (0: next() was called), the role
\* it attaches to the request, and the store calls it made
Authenticate(caller, env) ==
  IF caller = NoToken \/ caller \notin authUsers
    THEN [code |-> 401, role |-> "none", calls |-> {}]
  ELSE IF ~supabaseAdmin
    THEN [code |-> 500, role |-> "none", calls |-> {}]
  ELSE IF env.auth = "recursion"
    THEN [code |-> 500, role |-> "none", calls |-> {"auth"}]
  ELSE IF env.auth = "error" \/ profiles[caller] = NoRow
    THEN [code |-> 0, role |-> "viewer", calls |-> {"auth"}]
  ELSE [code |-> 0, role |-> profiles[caller], calls |-> {"auth"}]

\* requireAuth in the place of requireAdmin: any authenticated caller passes
RequireAuthOnly(role) == IF role = "none" THEN 401 ELSE 0

\* requireAdmin: the status it answers with (0: next() was called)
RequireAdmin(role) ==
  IF role = "none" THEN 401
  ELSE IF role # "admin" THEN 403
  ELSE 0

\* ------------------------------------------------------- database triggers
\* a table without the trigger: updated_at keeps the value of the insert
NoUpdatedAtTrigger(new) == new

\* update_updated_at_column, BEFORE UPDATE
UpdateUpdatedAtColumn(new) == [new EXCEPT !.updated_at = now]

\* handle_order_completion
HandleOrderCompletion(old, new) ==
  IF new.status = "completed" /\ old.status # "completed"
    THEN [new EXCEPT !.completed_at = now]
  ELSE IF new.status # "completed"
    THEN [new EXCEPT !.completed_at = NullTime]
  ELSE new

\* on_order_status_change, BEFORE UPDATE WHEN (OLD.status IS DISTINCT FROM NEW.status)
OnOrderStatusChange(old, new) ==
  IF old.status # new.status THEN HandleOrderCompletion(old, new) ELSE new

\* the row an UPDATE of `old` with the columns of updateData stores: the
\* SET list, then the BEFORE UPDATE triggers in name order
Patch(oldv, newv) == IF newv = Undefined THEN oldv ELSE newv

PatchTime(oldv, newv) == IF newv = UndefinedTime THEN oldv ELSE newv

\* an UPDATE that replaces the row: a column the payload leaves out is reset
ReplaceColumns(old, updateData) ==
  [old EXCEPT
     !.customer_name = updateData.customer_name,
     !.order_details = updateData.order_details,
     !.location = IF updateData.location = Undefined THEN NULL ELSE updateData.location,
     !.phone_number = IF updateData.phone_number = Undefined THEN NULL
                      ELSE updateData.phone_number,
     !.pickup_date = IF updateData.pickup_date = Undefined THEN NULL
                     ELSE updateData.pickup_date,
     !.meta_business_link = IF updateData.meta_business_link = Undefined THEN NULL
                            ELSE updateData.meta_business_link,
     !.image = IF updateData.image = Undefined THEN NULL ELSE updateData.image,
     !.status = IF updateData.status = Undefined THEN "incoming" ELSE updateData.status,
     !.completed_at = IF updateData.completed_at = UndefinedTime THEN NullTime
                      ELSE updateData.completed_at]

SetColumns(old, updateData) ==
  [old EXCEPT
     !.customer_name = Patch(@, updateData.customer_name),
     !.order_details = Patch(@, updateData.order_details),
     !.location = Patch(@, updateData.location),
     !.phone_number = Patch(@, updateData.phone_number),
     !.pickup_date = Patch(@, updateData.pickup_date),
     !.meta_business_link = Patch(@, updateData.meta_business_link),
     !.image = Patch(@, updateData.image),
     !.status = Patch(@, updateData.status),
     !.completed_at = PatchTime(@, updateData.completed_at)]

\* a store with a forbidden edge: an order that is completed stays completed
CompletedIsFinal(old, updateData) ==
  IF old.status = "completed"
    THEN UpdateUpdatedAtColumn(
           OnOrderStatusChange(old, [SetColumns(old, updateData) EXCEPT !.status = "completed"]))
  ELSE UpdateUpdatedAtColumn(OnOrderStatusChange(old, SetColumns(old, updateData)))

UpdateRow(old, updateData) ==
  UpdateUpdatedAtColumn(OnOrderStatusChange(old, SetColumns(old, updateData)))

\* the NOT NULL and CHECK constraints of the orders table
RowAccepted(row) ==
  /\ row.customer_name # NULL
  /\ row.order_details # NULL
  /\ row.status \in Statuses

\* ------------------------------------------------------ notification fan-out
UserSeq == <<"u1", "u2", "u3">>

\* the position of a profile in the order the store returns profiles in
UserIndex(u) == CHOOSE i \in 1..Len(UserSeq) : UserSeq[i] = u

Rank(u, S) == Cardinality({v \in S : UserIndex(v) < UserIndex(u)})

\* statusMessages[newStatus]
StatusMessage(s) == <<"Order moved to", s>>

\* a fan-out that inserts nothing and returns normally
NoFanOut(calls) == [rows |-> {}, calls |-> calls, thrown |-> FALSE]

\* a fan-out without the role filter: every profile is notified
NotifyEveryProfile(title, message, type, orderId, excludeUserId, env) ==
  LET everyone == {u \in UserIds : profiles[u] # NoRow}
  IN IF ~supabaseAdmin THEN NoFanOut({})
     ELSE IF env.lookup # "ok" \/ everyone = {} THEN NoFanOut({"lookup"})
     ELSE IF env.insert # "ok" THEN NoFanOut({"lookup", "insert"})
     ELSE [rows |-> {[id |-> nextNotificationId + Rank(u, everyone),
                     user_id |-> u, title |-> title, message |-> message,
                     type |-> type, order_id |-> orderId, read |-> FALSE] :
                      u \in everyone},
           calls |-> {"lookup", "insert"}, thrown |-> FALSE]

\* a fan-out without the try/catch: an exception of a store call leaves it
UncaughtFanOut(title, message, type, orderId, excludeUserId, env) ==
  LET admins == {u \in UserIds : profiles[u] = "admin"}
  IN IF ~supabaseAdmin THEN NoFanOut({})
     ELSE IF env.lookup = "throw"
       THEN [rows |-> {}, calls |-> {"lookup"}, thrown |-> TRUE]
     ELSE IF env.lookup # "ok" \/ admins = {} THEN NoFanOut({"lookup"})
     ELSE IF env.insert = "throw"
       THEN [rows |-> {}, calls |-> {"lookup", "insert"}, thrown |-> TRUE]
     ELSE IF env.insert # "ok" THEN NoFanOut({"lookup", "insert"})
     ELSE [rows |-> {[id |-> nextNotificationId + Rank(u, admins),
                     user_id |-> u, title |-> title, message |-> message,
                     type |-> type, order_id |-> orderId, read |-> FALSE] :
                      u \in admins},
           calls |-> {"lookup", "insert"}, thrown |-> FALSE]

\* createNotificationForAdmins: the rows it inserts into notifications, the
\* store calls it made, and whether an exception leaves it (its try/catch
\* lets none out)
CreateNotificationForAdmins(title, message, type, orderId, excludeUserId, env) ==
  LET admins == {u \in UserIds : profiles[u] = "admin"}
      adminsToNotify ==
        IF Truthy(excludeUserId) THEN admins \ {excludeUserId} ELSE admins
  IN IF ~supabaseAdmin THEN NoFanOut({})
     ELSE IF env.lookup # "ok" \/ admins = {} THEN NoFanOut({"lookup"})
     ELSE IF adminsToNotify = {} THEN NoFanOut({"lookup"})
     ELSE IF env.insert # "ok" THEN NoFanOut({"lookup", "insert"})
     ELSE [rows |-> {[id |-> nextNotificationId + Rank(u, adminsToNotify),
                     user_id |-> u, title |-> title, message |-> message,
                     type |-> type, order_id |-> orderId, read |-> FALSE] :
                      u \in adminsToNotify},
           calls |-> {"lookup", "insert"}, thrown |-> FALSE]

\* a type expression that tells completed apart and nothing else
MoveTypeSuccessOnly(newStatus) ==
  IF newStatus = "completed" THEN "success" ELSE "order"

\* the type of the notification a move to newStatus produces
MoveType(newStatus) ==
  IF newStatus = "completed" THEN "success"
  ELSE IF newStatus = "declined" THEN "warning"
  ELSE "order"

\* a handler that fans out 'Order Updated' whoever made the change
NotifyEveryEdit(isAdmin, updateData, oldOrder, order, env) ==
  IF Truthy(updateData.status)
    THEN LET oldStatus == IF oldOrder = <<>> THEN Undefined ELSE oldOrder[1].status
             newStatus == updateData.status
         IN IF oldStatus # newStatus
              THEN CreateNotificationForAdmins(
                     <<"Order Moved", ToUpperCase(newStatus)>>,
                     <<order.customer_name, StatusMessage(newStatus), order.order_details>>,
                     MoveType(newStatus), order.id, Undefined, env)
              ELSE NoFanOut({})
  ELSE CreateNotificationForAdmins(
         <<"Order Updated">>, <<order.customer_name, "has been updated">>,
         "info", order.id, Undefined, env)

\* router.put('/:id'), after the update: what the handler fans out for the
\* stored row `order`; oldOrder is <<row>>, or <<>> when the read gave none
UpdateNotifications(isAdmin, updateData, oldOrder, order, env) ==
  IF Truthy(updateData.status)
    THEN LET oldStatus == IF oldOrder = <<>> THEN Undefined ELSE oldOrder[1].status
             newStatus == updateData.status
         IN IF oldStatus # newStatus
              THEN CreateNotificationForAdmins(
                     <<"Order Moved", ToUpperCase(newStatus)>>,
                     <<order.customer_name, StatusMessage(newStatus), order.order_details>>,
                     MoveType(newStatus), order.id, Undefined, env)
              ELSE NoFanOut({})
  ELSE IF isAdmin
    THEN CreateNotificationForAdmins(
           <<"Order Updated">>, <<order.customer_name, "has been updated">>,
           "info", order.id, Undefined, env)
  ELSE NoFanOut({})

\* -------------------------------------------------------------- handlers
\* updateData with completed_at copied for every caller
UpdateDataCopiesAll(isAdmin, body) == body

\* updateData with a viewer's completed_at written as null instead of dropped
UpdateDataNullsViewer(isAdmin, body) ==
  [body EXCEPT !.completed_at =
     IF isAdmin \/ @ = UndefinedTime THEN @ ELSE NullTime]

\* router.put('/:id'): updateData; only an admin's completed_at is copied
UpdateData(isAdmin, body) ==
  [body EXCEPT !.completed_at = IF isAdmin THEN @ ELSE UndefinedTime]

\* an update handler that answers every store error alike
AlwaysBadRequest(errorCode) == 400

\* router.put('/:id'): the status for an error of the update call; PGRST116
\* is what single() reports when no row matched
UpdateErrorStatus(errorCode) == IF errorCode = "PGRST116" THEN 404 ELSE 400

\* router.put('/:id'): the response, the orders table and the rows fanned
\* out; an exception after the write ends in the handler's catch, status 500
PutOrder(caller, id, body, env) ==
  LET auth == Authenticate(caller, env)
      isAdmin == auth.role = "admin"
      updateData == UpdateData(isAdmin, body)
      reply(code, calls) ==
        [res |-> Response("update", caller, auth.role, id, body,
                          Made(env, auth.calls \cup calls), code, <<>>),
         orders |-> orders, created |-> {}]
  IN IF auth.code # 0
       THEN [res |-> Response("update", caller, auth.role, 0, NoBody,
                              Made(env, auth.calls), auth.code, <<>>),
             orders |-> orders, created |-> {}]
     ELSE IF Present(updateData) = {} THEN reply(400, {})
     ELSE IF ~supabaseAdmin THEN reply(500, {})
     ELSE IF env.write # "ok" THEN reply(UpdateErrorStatus("08006"), {"read", "write"})
     ELSE IF id \notin DOMAIN orders
       THEN reply(UpdateErrorStatus("PGRST116"), {"read", "write"})
     ELSE IF ~RowAccepted(UpdateRow(orders[id], updateData))
       THEN reply(UpdateErrorStatus("23514"), {"read", "write"})
     ELSE LET oldOrder == IF env.read = "ok" THEN <<orders[id]>> ELSE <<>>
              order == UpdateRow(orders[id], updateData)
              fanout == UpdateNotifications(isAdmin, updateData, oldOrder, order, env)
          IN [res |-> Response("update", caller, auth.role, id, body,
                               Made(env, auth.calls \cup {"read", "write"}
                                           \cup fanout.calls),
                               IF fanout.thrown THEN 500 ELSE 200,
                               IF fanout.thrown THEN <<>> ELSE <<order>>),
              orders |-> [orders EXCEPT ![id] = order],
              created |-> fanout.rows]

UpdateOrder(caller, id, body, env) ==
  \E out \in {PutOrder(caller, id, body, env)} :
     /\ nextNotificationId + Cardinality(out.created) <= MaxNotifications + 1
     /\ res' = out.res
     /\ orders' = out.orders
     /\ notifications' = notifications \cup out.created
     /\ nextNotificationId' = nextNotificationId + Cardinality(out.created)
     /\ UNCHANGED <<usernames, inflight, retry, supabaseAdmin, storeFaults, authUsers,
                    profiles, nextOrderId, now, history, nextHistoryId, session>>

\* router.post('/'): orderData
OrderData(caller, body) ==
  [customer_name |-> body.customer_name,
   order_details |-> body.order_details,
   location |-> OrElse(body.location, NULL),
   phone_number |-> OrElse(body.phone_number, NULL),
   pickup_date |-> OrElse(body.pickup_date, NULL),
   meta_business_link |-> OrElse(body.meta_business_link, NULL),
   image |-> OrElse(body.image, NULL),
   status |-> OrElse(body.status, "incoming"),
   created_by |-> caller]

\* INSERT INTO orders: the column defaults fill what orderData leaves out
InsertRow(orderData) ==
  [id |-> nextOrderId,
   customer_name |-> orderData.customer_name,
   order_details |-> orderData.order_details,
   location |-> orderData.location,
   phone_number |-> orderData.phone_number,
   pickup_date |-> orderData.pickup_date,
   meta_business_link |-> orderData.meta_business_link,
   image |-> orderData.image,
   status |-> orderData.status,
   created_at |-> now,
   completed_at |-> NullTime,
   created_by |-> orderData.created_by,
   updated_at |-> now]

\* router.post('/'): the response and the orders table
PostOrder(caller, body, env) ==
  LET auth == Authenticate(caller, env)
      gate == RequireAdmin(auth.role)
      orderData == OrderData(caller, body)
      refuse(code) ==
        [res |-> Response("create", caller, auth.role, 0, NoBody,
                          Made(env, auth.calls), code, <<>>),
         orders |-> orders]
      reply(code, calls) ==
        [res |-> Response("create", caller, auth.role, 0, body,
                          Made(env, auth.calls \cup calls), code, <<>>),
         orders |-> orders]
  IN IF auth.code # 0 THEN refuse(auth.code)
     ELSE IF gate # 0 THEN refuse(gate)
     ELSE IF ~Truthy(orderData.customer_name) \/ ~Truthy(orderData.order_details)
       THEN reply(400, {})
     ELSE IF ~supabaseAdmin THEN reply(500, {})
     ELSE IF env.write # "ok" \/ ~RowAccepted(InsertRow(orderData))
       THEN reply(400, {"write"})
     ELSE LET order == InsertRow(orderData)
          IN [res |-> Response("create", caller, auth.role, order.id, body,
                               Made(env, auth.calls \cup {"write"}), 201, <<order>>),
              orders |-> [i \in DOMAIN orders \cup {order.id} |->
                            IF i = order.id THEN order ELSE orders[i]]]

CreateOrder(caller, body, env) ==
  \E out \in {PostOrder(caller, body, env)} :
     /\ nextOrderId <= MaxOrders
     /\ res' = out.res
     /\ orders' = out.orders
     /\ nextOrderId' = IF out.res.code = 201 THEN nextOrderId + 1 ELSE nextOrderId
     /\ UNCHANGED <<usernames, inflight, retry, supabaseAdmin, storeFaults, authUsers,
                    profiles, notifications, nextNotificationId, now, history,
                    nextHistoryId, session>>

\* router.delete('/:id'): the response and the orders table
DeleteOrderRow(caller, id, env) ==
  LET auth == Authenticate(caller, env)
      gate == RequireAdmin(auth.role)
      refuse(code) ==
        [res |-> Response("delete", caller, auth.role, 0, NoBody,
                          Made(env, auth.calls), code, <<>>),
         orders |-> orders]
      reply(code, calls, rows) ==
        [res |-> Response("delete", caller, auth.role, id, NoBody,
                          Made(env, auth.calls \cup calls), code, <<>>),
         orders |-> rows]
  IN IF auth.code # 0 THEN refuse(auth.code)
     ELSE IF gate # 0 THEN refuse(gate)
     ELSE IF ~supabaseAdmin THEN reply(500, {}, orders)
     ELSE IF env.write # "ok" THEN reply(400, {"write"}, orders)
     ELSE reply(200, {"write"}, [i \in DOMAIN orders \ {id} |-> orders[i]])

\* notifications.order_id and order_history.order_id REFERENCES orders(id)
\* ON DELETE CASCADE
DeleteOrder(caller, id, env) ==
  \E out \in {DeleteOrderRow(caller, id, env)} :
     /\ res' = out.res
     /\ orders' = out.orders
     /\ notifications' =
          {n \in notifications : n.order_id = NullId \/ n.order_id \in DOMAIN out.orders}
     /\ history' = {h \in history : h.order_id \in DOMAIN out.orders}
     /\ UNCHANGED <<usernames, inflight, retry, supabaseAdmin, storeFaults, authUsers,
                    profiles, nextOrderId, nextNotificationId, now, nextHistoryId,
                    session>>

\* a created_by declared ON DELETE CASCADE: the identity's orders go with it
CreatedByCascade(id) ==
  [i \in {j \in DOMAIN orders : orders[j].created_by # id} |-> orders[i]]

\* orders.created_by REFERENCES auth.users(id) ON DELETE SET NULL: the orders
\* table after the identity id is deleted
CreatedBySetNull(id) ==
  [i \in DOMAIN orders |->
     IF orders[i].created_by = id
       THEN UpdateUpdatedAtColumn([orders[i] EXCEPT !.created_by = NULL])
       ELSE orders[i]]

\* router.delete('/viewers/:id'): auth.admin.deleteUser and what it cascades
\* to: user_profiles and notifications rows go, orders.created_by and
\* order_history.user_id are set NULL; the update of an orders row runs its
\* BEFORE UPDATE triggers
DeleteViewer(caller, id, env) ==
  LET auth == Authenticate(caller, env)
      gate == RequireAdmin(auth.role)
      called == auth.code = 0 /\ gate = 0 /\ supabaseAdmin
      done == called /\ env.write = "ok" /\ id \in authUsers
      code == IF auth.code # 0 THEN auth.code
              ELSE IF gate # 0 THEN gate
              ELSE IF ~supabaseAdmin THEN 500
              ELSE IF ~done THEN 400
              ELSE 200
  IN /\ res' = Response("deleteViewer", caller, auth.role, 0, NoBody,
                        Made(env, auth.calls \cup IF called THEN {"write"} ELSE {}),
                        code, <<>>)
     /\ authUsers' = IF done THEN authUsers \ {id} ELSE authUsers
     /\ profiles' = IF done THEN [profiles EXCEPT ![id] = NoRow] ELSE profiles
     /\ usernames' = IF done THEN [usernames EXCEPT ![id] = NoRow] ELSE usernames
     /\ notifications' =
          IF done THEN {n \in notifications : n.user_id # id} ELSE notifications
     /\ orders' = IF done THEN CreatedBySetNull(id) ELSE orders
     /\ history' =
          IF done
            THEN {IF h.user_id = id THEN [h EXCEPT !.user_id = NULL] ELSE h : h \in history}
            ELSE history
     /\ UNCHANGED <<inflight, retry, supabaseAdmin, storeFaults, nextOrderId,
                    nextNotificationId, now, nextHistoryId, session>>

\* ---------------------------------------------------- notification routes
RECURSIVE NewestFirst(_)
\* order('created_at', { ascending: false }) over rows whose ids grow with
\* their insertion time: the rows as a sequence, the latest first
NewestFirst(rows) ==
  IF rows = {} THEN <<>>
  ELSE LET top == CHOOSE n \in rows : \A m \in rows : m.id <= n.id
       IN <<top>> \o NewestFirst(rows \ {top})

\* router.get('/'): the rows the query selects
OwnNotifications(userId, unreadOnly) ==
  {n \in notifications : n.user_id = userId /\ (unreadOnly => ~n.read)}

\* router.get('/') of the notifications router
ListNotifications(caller, unreadOnly) ==
  LET auth == Authenticate(caller, AllOk)
  IN /\ res' = IF auth.code # 0 THEN Plain("list", caller, auth.role, auth.code)
                ELSE Response("list", caller, auth.role, 0, NoBody, AllOk, 200,
                              NewestFirst(OwnNotifications(caller, unreadOnly)))
     /\ UNCHANGED <<usernames, inflight, retry, supabaseAdmin, storeFaults, authUsers,
                    profiles, orders, nextOrderId, notifications, nextNotificationId,
                    now, history, nextHistoryId, session>>

\* a lookup by id alone
AnyonesNotification(userId, id) == {n \in notifications : n.id = id}

\* router.put('/:id/read') and router.delete('/:id'): the row the handler
\* first selects, by id and user_id
OwnNotification(userId, id) ==
  {n \in notifications : n.id = id /\ n.user_id = userId}

\* router.put('/:id/read')
MarkRead(caller, id) ==
  LET auth == Authenticate(caller, AllOk)
      found == IF auth.code = 0 THEN OwnNotification(caller, id) ELSE {}
      updated == {[n EXCEPT !.read = TRUE] : n \in found}
  IN /\ res' = IF auth.code # 0 THEN Plain("markRead", caller, auth.role, auth.code)
                ELSE Response("markRead", caller, auth.role, id, NoBody, AllOk,
                              IF found = {} THEN 404 ELSE 200, NewestFirst(updated))
     /\ notifications' = (notifications \ found) \cup updated
     /\ UNCHANGED <<usernames, inflight, retry, supabaseAdmin, storeFaults, authUsers,
                    profiles, orders, nextOrderId, nextNotificationId, now, history,
                    nextHistoryId, session>>

\* router.delete('/:id') of the notifications router
DeleteNotification(caller, id) ==
  LET auth == Authenticate(caller, AllOk)
      found == IF auth.code = 0 THEN OwnNotification(caller, id) ELSE {}
  IN /\ res' = IF auth.code # 0
                  THEN Plain("deleteNotification", caller, auth.role, auth.code)
                ELSE Response("deleteNotification", caller, auth.role, id, NoBody, AllOk,
                              IF found = {} THEN 404 ELSE 200, <<>>)
     /\ notifications' = notifications \ found
     /\ UNCHANGED <<usernames, inflight, retry, supabaseAdmin, storeFaults, authUsers,
                    profiles, orders, nextOrderId, nextNotificationId, now, history,
                    nextHistoryId, session>>

\* the bodies of POST /api/notifications
NotificationBodies ==
  [user_id : {Undefined, "u3"}, title : {"Reminder"}, message : {"Call the customer"},
   type : {Undefined}, order_id : {NullId} \cup OrderIds]

\* router.post('/') of the notifications router: the status and the row
PostNotificationRow(caller, body) ==
  LET auth == Authenticate(caller, AllOk)
      row == [id |-> nextNotificationId, user_id |-> body.user_id,
              title |-> <<body.title>>, message |-> <<body.message>>,
              type |-> OrElse(body.type, "info"), order_id |-> body.order_id,
              read |-> FALSE]
      code == IF auth.code # 0 THEN auth.code
              ELSE IF auth.role # "admin" THEN 403
              ELSE IF ~Truthy(body.user_id) \/ ~Truthy(body.title) \/ ~Truthy(body.message)
                THEN 400
              ELSE IF ~supabaseAdmin THEN 500
              ELSE IF body.user_id \notin authUsers THEN 400
              ELSE IF body.order_id # NullId /\ body.order_id \notin DOMAIN orders THEN 400
              ELSE 201
  IN [code |-> code, role |-> auth.role, rows |-> IF code = 201 THEN {row} ELSE {}]

\* router.post('/notify-admin-ready'): the status and the rows, one for every
\* admin profile; the route asks for no role
NotifyAdminReadyRows(caller, orderId) ==
  LET auth == Authenticate(caller, AllOk)
      admins == {u \in UserIds : profiles[u] = "admin"}
      code == IF auth.code # 0 THEN auth.code
              ELSE IF orderId = NullId THEN 400
              ELSE IF ~supabaseAdmin THEN 500
              ELSE IF orderId \notin DOMAIN orders THEN 404
              ELSE IF admins = {} THEN 404
              ELSE 201
  IN [code |-> code, role |-> auth.role,
      rows |-> IF code # 201 THEN {}
               ELSE {[id |-> nextNotificationId + Rank(u, admins), user_id |-> u,
                      title |-> <<"Cake Ready for Pickup">>,
                      message |-> <<"Order for", orders[orderId].customer_name,
                                    "is ready for pickup", orders[orderId].order_details>>,
                      type |-> "order", order_id |-> orderId, read |-> FALSE] :
                       u \in admins}]

\* the two routes that insert notifications on request
PostNotification(caller, body) ==
  \E out \in {PostNotificationRow(caller, body)} :
     /\ nextNotificationId + Cardinality(out.rows) <= MaxNotifications + 1
     /\ res' = Response("notify", caller, out.role, 0, NoBody, AllOk, out.code,
                         NewestFirst(out.rows))
     /\ notifications' = notifications \cup out.rows
     /\ nextNotificationId' = nextNotificationId + Cardinality(out.rows)
     /\ UNCHANGED <<usernames, inflight, retry, supabaseAdmin, storeFaults, authUsers,
                    profiles, orders, nextOrderId, now, history, nextHistoryId,
                    session>>

NotifyAdminReady(caller, orderId) ==
  \E out \in {NotifyAdminReadyRows(caller, orderId)} :
     /\ nextNotificationId + Cardinality(out.rows) <= MaxNotifications + 1
     /\ res' = Response("notifyAdminReady", caller, out.role, orderId, NoBody, AllOk,
                         out.code, NewestFirst(out.rows))
     /\ notifications' = notifications \cup out.rows
     /\ nextNotificationId' = nextNotificationId + Cardinality(out.rows)
     /\ UNCHANGED <<usernames, inflight, retry, supabaseAdmin, storeFaults, authUsers,
                    profiles, orders, nextOrderId, now, history, nextHistoryId,
                    session>>

\* ----------------------------------------------------------- history routes
\* the values of event_type the CHECK constraint of order_history accepts
EventTypes == {"status_change", "note", "view", "manual"}

\* the bodies of POST /api/history
HistoryBodies ==
  [order_id : {NullId} \cup OrderIds, event_type : {Undefined, "note", "call"},
   old_status : {Undefined}, new_status : {Undefined}, note : {Undefined}]

\* a ?? null
OrNull(v) == IF v \in {Undefined, NULL} THEN NULL ELSE v

\* router.post('/') of the history router: the status and the row inserted
PostHistoryRow(caller, body) ==
  LET auth == Authenticate(caller, AllOk)
      gate == RequireAdmin(auth.role)
      row == [id |-> nextHistoryId, order_id |-> body.order_id, user_id |-> caller,
              event_type |-> body.event_type, old_status |-> OrNull(body.old_status),
              new_status |-> OrNull(body.new_status), note |-> OrNull(body.note),
              created_at |-> now]
      code == IF auth.code # 0 THEN auth.code
              ELSE IF gate # 0 THEN gate
              ELSE IF body.order_id = NullId \/ ~Truthy(body.event_type) THEN 400
              ELSE IF ~supabaseAdmin THEN 500
              ELSE IF body.order_id \notin DOMAIN orders THEN 400
              ELSE IF body.event_type \notin EventTypes THEN 400
              ELSE 201
  IN [code |-> code, role |-> auth.role, rows |-> IF code = 201 THEN {row} ELSE {}]

AppendHistory(caller, body) ==
  \E out \in {PostHistoryRow(caller, body)} :
     /\ nextHistoryId + Cardinality(out.rows) <= MaxHistory + 1
     /\ res' = Response("appendHistory", caller, out.role, body.order_id, NoBody, AllOk,
                         out.code, NewestFirst(out.rows))
     /\ history' = history \cup out.rows
     /\ nextHistoryId' = nextHistoryId + Cardinality(out.rows)
     /\ UNCHANGED <<usernames, inflight, retry, supabaseAdmin, storeFaults, authUsers,
                    profiles, orders, nextOrderId, notifications, nextNotificationId,
                    now, session>>

\* the SELECT policy of order_history, auth.role() = 'authenticated': the
\* rows a query of the shared anon-key client sees
VisibleHistory == IF session = NoToken THEN {} ELSE history

\* the sequences order('created_at', { ascending: false }) may return for a
\* set of rows: rows of one created_at come in any order
ByCreatedAtDesc(rows) ==
  {q \in [1..Cardinality(rows) -> rows] :
     /\ \A i, j \in DOMAIN q : i # j => q[i] # q[j]
     /\ \A i, j \in DOMAIN q : i < j => q[i].created_at >= q[j].created_at}

\* router.get('/') of the history router, with or without ?order_id=
ListHistory(caller, orderId) ==
  LET auth == Authenticate(caller, AllOk)
      rows == {h \in VisibleHistory : orderId # NullId => h.order_id = orderId}
  IN /\ \E q \in ByCreatedAtDesc(rows) :
          res' = IF auth.code # 0 THEN Plain("listHistory", caller, auth.role, auth.code)
                 ELSE Response("listHistory", caller, auth.role, orderId, NoBody, AllOk,
                               200, q)
     /\ UNCHANGED <<usernames, inflight, retry, supabaseAdmin, storeFaults, authUsers,
                    profiles, orders, nextOrderId, notifications, nextNotificationId,
                    now, history, nextHistoryId, session>>

\* router.post('/login') with an e-mail: signInWithPassword on the shared
\* anon-key client, which keeps the session it is given
Login(user, password) ==
  LET signedIn == user \in authUsers /\ password = "123456"
      code == IF ~signedIn THEN 401
              ELSE IF ~supabaseAdmin \/ profiles[user] = NoRow THEN 500
              ELSE 200
  IN /\ res' = Plain("login", NoToken, "none", code)
     /\ session' = IF signedIn THEN user ELSE session
     /\ UNCHANGED <<usernames, inflight, retry, supabaseAdmin, storeFaults, authUsers,
                    profiles, orders, nextOrderId, notifications, nextNotificationId,
                    now, history, nextHistoryId>>

\* ------------------------------------------------------- accounts and roles
\* an Authorization header that does not start with "Bearer ", and a bearer
\* token the identity provider does not accept
BadHeader == "Basic dTE6cHc="
BadToken == "Bearer not-a-jwt"
AnyCallers == Callers \cup {BadHeader, BadToken}

\* the identity a sign-up creates
NewUserId == "u2"

\* the bodies of the two registration routes
RegisterBodies ==
  [email : {Undefined, "zed@dc.test"},
   password : {"12345", "123456"},
   username : {Undefined, "zed"}]

\* String.prototype.length of the passwords sent
PasswordLength(password) == IF password = "12345" THEN 5 ELSE 6

\* the checks both registration routes start with: 0, or the status answered
RegisterRefusal(body) ==
  IF ~Truthy(body.email) \/ ~Truthy(body.password) THEN 400
  ELSE IF ~Truthy(body.username) THEN 400
  ELSE IF PasswordLength(body.password) < 6 THEN 400
  ELSE 0

\* handle_new_user: the role of the profile row inserted for a new identity
HandleNewUser(metaRole) == IF metaRole = NULL THEN "viewer" ELSE metaRole

\* router.post('/register'): supabase.auth.signUp with role viewer in the
\* metadata; signedIn tells whether the sign-up returns a session (the
\* project does not ask for e-mail confirmation), which the shared client
\* then keeps
Register(body, signedIn) ==
  LET refusal == RegisterRefusal(body)
      created == refusal = 0 /\ NewUserId \notin authUsers
  IN /\ res' = Plain("register", NoToken, "none",
                      IF refusal # 0 THEN refusal ELSE IF created THEN 201 ELSE 400)
     /\ authUsers' = IF created THEN authUsers \cup {NewUserId} ELSE authUsers
     /\ profiles' = IF created
                      THEN [profiles EXCEPT ![NewUserId] = HandleNewUser("viewer")]
                      ELSE profiles
     /\ usernames' = IF created
                       THEN [usernames EXCEPT ![NewUserId] = body.username]
                       ELSE usernames
     /\ session' = IF created /\ signedIn THEN NewUserId ELSE session
     /\ UNCHANGED <<inflight, retry, supabaseAdmin, storeFaults, orders, nextOrderId,
                    notifications, nextNotificationId, now, history, nextHistoryId>>

\* router.post('/register-admin'): the status answered; the route has no
\* middleware in front of it, so the caller's credential is never read
RegisterAdminStatus(caller, body) ==
  LET refusal == RegisterRefusal(body)
      code == IF refusal # 0 THEN refusal
              ELSE IF ~supabaseAdmin THEN 500
              ELSE IF NewUserId \in authUsers THEN 400
              ELSE 201
  IN [code |-> code, role |-> "none"]

\* router.post('/register-admin'): auth.admin.createUser with role admin in
\* the metadata, then the profile row is updated with role admin
RegisterAdmin(caller, body) ==
  \E out \in {RegisterAdminStatus(caller, body)} :
     /\ res' = Plain("registerAdmin", caller, out.role, out.code)
     /\ authUsers' = IF out.code = 201 THEN authUsers \cup {NewUserId} ELSE authUsers
     /\ profiles' = IF out.code = 201
                      THEN [profiles EXCEPT ![NewUserId] = HandleNewUser("admin")]
                      ELSE profiles
     /\ usernames' = IF out.code = 201
                       THEN [usernames EXCEPT ![NewUserId] = body.username]
                       ELSE usernames
     /\ UNCHANGED <<inflight, retry, supabaseAdmin, storeFaults, orders, nextOrderId,
                    notifications, nextNotificationId, now, history, nextHistoryId,
                    session>>

\* get_user_role: the role of an identity, viewer when it has no profile row
\* (auth.uid() of a request without a user token is NULL)
GetUserRole(uid) ==
  IF uid \in UserIds /\ profiles[uid] # NoRow THEN profiles[uid] ELSE "viewer"

\* the UPDATE policies of user_profiles: the rows a request may update
ProfileUpdatePolicy(uid, id) == uid = id \/ GetUserRole(uid) = "admin"

\* a trigger that lets every role change through
AllowRoleChange(uid, id, oldRole, newRole) == TRUE

\* prevent_role_change: TRUE when the update goes on, FALSE when the
\* function raises 'Users cannot change their own role'
PreventRoleChange(uid, id, oldRole, newRole) ==
  IF oldRole = newRole THEN TRUE
  ELSE IF uid \in UserIds /\ profiles[uid] = "admin" THEN TRUE
  ELSE IF uid = id THEN FALSE
  ELSE TRUE

\* UPDATE user_profiles SET role = newRole WHERE id = ..., sent to the
\* database with the caller's own token (caller NoToken: the anon key alone):
\* 200 with the updated row, 200 with no row when the policies hide the row,
\* 400 when the trigger raises
UpdateProfileRole(caller, id, newRole) ==
  LET uid == IF caller \in authUsers THEN caller ELSE NoToken
      visible == id \in UserIds /\ profiles[id] # NoRow /\ ProfileUpdatePolicy(uid, id)
      allowed == visible /\ PreventRoleChange(uid, id, profiles[id], newRole)
  IN /\ caller \in authUsers \cup {NoToken}
     /\ res' = Response("setRole", caller, GetUserRole(uid), 0,
                         [id |-> id, role |-> newRole], AllOk,
                         IF visible /\ ~allowed THEN 400 ELSE 200,
                         IF allowed THEN <<[id |-> id, role |-> newRole]>> ELSE <<>>)
     /\ profiles' = IF allowed THEN [profiles EXCEPT ![id] = newRole] ELSE profiles
     /\ UNCHANGED <<usernames, inflight, retry, supabaseAdmin, storeFaults, authUsers,
                    orders, nextOrderId, notifications, nextNotificationId, now,
                    history, nextHistoryId, session>>

\* ------------------------------------------------- requests under way
\* a request between two of its awaits: where it stands (pc), what it read
\* from its credential and body, the data its store calls returned so far
\* (oldOrder, order, rows), the stored status its UPDATE replaced (before),
\* the position of its UPDATE among the UPDATEs applied (wrote), whether its
\* INSERT was refused (insertError), and the status it answered with (code)
NoRequest ==
  [pc |-> "free", op |-> "none", caller |-> NoToken, isAdmin |-> FALSE, id |-> 0,
   updateData |-> NoBody, oldOrder |-> <<>>, before |-> Undefined, order |-> <<>>,
   rows |-> {}, wrote |-> 0, insertError |-> FALSE, code |-> 0,
   target |-> NoToken, username |-> Undefined]

\* the PUT bodies of two requests that meet: each sets one column
RaceBodies ==
  {b \in [customer_name : {Undefined}, order_details : {Undefined},
           location : {Undefined, "Main St", "Oak Ave"}, phone_number : {Undefined},
           pickup_date : {Undefined}, meta_business_link : {Undefined},
           image : {Undefined}, status : {Undefined, "incoming", "pending"},
           completed_at : {UndefinedTime}] :
     Cardinality(Present(b)) = 1}

\* a slot takes a request when the slots before it are taken
NextFree(r) ==
  inflight[r].pc = "free" /\ \A q \in Requests : q < r => inflight[q].pc # "free"

\* router.put('/:id') up to its first store call: authenticate, updateData,
\* the two early returns; the id is one gen_random_uuid() has handed out
ReceiveUpdate(r, caller, id, body) ==
  /\ NextFree(r)
  /\ id < nextOrderId
  /\ LET auth == Authenticate(caller, AllOk)
         isAdmin == auth.role = "admin"
         updateData == UpdateData(isAdmin, body)
         code == IF auth.code # 0 THEN auth.code
                 ELSE IF Present(updateData) = {} THEN 400
                 ELSE IF ~supabaseAdmin THEN 500
                 ELSE 0
     IN inflight' = [inflight EXCEPT ![r] =
                       [NoRequest EXCEPT !.pc = IF code = 0 THEN "read" ELSE "done",
                                         !.op = "update", !.caller = caller,
                                         !.isAdmin = isAdmin, !.id = id,
                                         !.updateData = updateData, !.code = code]]
  /\ UNCHANGED <<usernames, retry, supabaseAdmin, storeFaults, authUsers, profiles,
                 orders, nextOrderId, notifications, nextNotificationId, now, history,
                 nextHistoryId, session, res>>

\* router.put('/:id'): the select of the old order
ReadOldOrder(r) ==
  /\ inflight[r].pc = "read"
  /\ inflight' = [inflight EXCEPT
                    ![r].oldOrder = IF inflight[r].id \in DOMAIN orders
                                      THEN <<orders[inflight[r].id]>> ELSE <<>>,
                    ![r].pc = "write"]
  /\ UNCHANGED <<usernames, retry, supabaseAdmin, storeFaults, authUsers, profiles,
                 orders, nextOrderId, notifications, nextNotificationId, now, history,
                 nextHistoryId, session, res>>

\* router.put('/:id'): the update, and the two error returns after it
WriteOrder(r) ==
  LET id == inflight[r].id
      found == id \in DOMAIN orders
      accepted == found /\ RowAccepted(UpdateRow(orders[id], inflight[r].updateData))
      order == UpdateRow(orders[id], inflight[r].updateData)
  IN /\ inflight[r].pc = "write"
     /\ orders' = IF accepted THEN [orders EXCEPT ![id] = order] ELSE orders
     /\ inflight' =
          IF accepted
            THEN [inflight EXCEPT
                    ![r].before = orders[id].status,
                    ![r].order = <<order>>,
                    ![r].wrote = 1 + Cardinality({q \in Requests : inflight[q].wrote > 0}),
                    ![r].pc = "lookup"]
            ELSE [inflight EXCEPT
                    ![r].code = UpdateErrorStatus(IF found THEN "23514" ELSE "PGRST116"),
                    ![r].pc = "done"]
     /\ UNCHANGED <<usernames, retry, supabaseAdmin, storeFaults, authUsers, profiles,
                    nextOrderId, notifications, nextNotificationId, now, history,
                    nextHistoryId, session, res>>

\* router.put('/:id') after the update: the status comparison and, when it
\* asks for a fan-out, createNotificationForAdmins up to its insert
LookupAdmins(r) ==
  /\ inflight[r].pc = "lookup"
  /\ LET fanout == UpdateNotifications(inflight[r].isAdmin, inflight[r].updateData,
                                       inflight[r].oldOrder, inflight[r].order[1], AllOk)
     IN inflight' =
          IF fanout.rows = {}
            THEN [inflight EXCEPT ![r].code = 200, ![r].pc = "done"]
            ELSE [inflight EXCEPT ![r].rows = fanout.rows, ![r].pc = "insert"]
  /\ UNCHANGED <<usernames, retry, supabaseAdmin, storeFaults, authUsers, profiles,
                 orders, nextOrderId, notifications, nextNotificationId, now, history,
                 nextHistoryId, session, res>>

\* an insert into notifications that does not check order_id
InsertUnchecked(r) == inflight[r].rows

\* createNotificationForAdmins: the rows its insert stores; order_id
\* REFERENCES orders(id), so the statement fails when the order is gone
InsertChecked(r) ==
  IF inflight[r].id \in DOMAIN orders THEN inflight[r].rows ELSE {}

\* createNotificationForAdmins: the insert, whose error is only logged, and
\* the response of router.put('/:id')
InsertNotifications(r) ==
  LET stored == InsertChecked(r)
      users == {n.user_id : n \in stored}
      rows == {[n EXCEPT !.id = nextNotificationId + Rank(n.user_id, users)] :
                 n \in stored}
  IN /\ inflight[r].pc = "insert"
     /\ nextNotificationId + Cardinality(inflight[r].rows) <= MaxNotifications + 1
     /\ notifications' = notifications \cup rows
     /\ nextNotificationId' = nextNotificationId + Cardinality(rows)
     /\ inflight' = [inflight EXCEPT ![r].insertError = stored = {},
                                     ![r].code = 200, ![r].pc = "done"]
     /\ UNCHANGED <<usernames, retry, supabaseAdmin, storeFaults, authUsers, profiles,
                    orders, nextOrderId, now, history, nextHistoryId, session, res>>

\* ------------------------------------------- account requests under way
\* the usernames requests ask for: one that is taken at the start, one free
Names == {"ann", "zed"}

\* the bodies of register, register-admin and create-viewer
SignUpBodies ==
  [email : {"zed@dc.test", "yan@dc.test"}, password : {"123456"},
   username : {Undefined} \cup Names]

\* the identity the provider creates for an e-mail address
IdentityOf(email) == IF email = "zed@dc.test" THEN "u2" ELSE "u3"

SignUpRoutes == {"register", "registerAdmin", "createViewer"}

\* the SELECT policies of user_profiles: the rows a request of the anon-key
\* client sees
ProfileSelectPolicy(uid, id) == uid = id \/ GetUserRole(uid) = "admin"

\* a column without the constraint: any value is stored
NoUniqueConstraint(id, username) == TRUE

\* username TEXT UNIQUE: TRUE when no other row holds the username
UsernameUnique(id, username) ==
  \A u \in UserIds \ {id} : usernames[u] # username

\* the three sign-up routes up to their first store call
ReceiveSignUp(r, route, body) ==
  /\ NextFree(r)
  /\ inflight' = [inflight EXCEPT ![r] =
                    IF RegisterRefusal(body) # 0
                      THEN [NoRequest EXCEPT !.pc = "done", !.op = route,
                                            !.code = RegisterRefusal(body)]
                      ELSE [NoRequest EXCEPT !.pc = "check", !.op = route,
                                            !.target = IdentityOf(body.email),
                                            !.username = body.username]]
  /\ UNCHANGED <<usernames, retry, supabaseAdmin, storeFaults, authUsers, profiles,
                 orders, nextOrderId, notifications, nextNotificationId, now, history,
                 nextHistoryId, session, res>>

\* router.put('/profile') and router.put('/viewers/:id') up to their first
\* store call
ReceiveRename(r, route, caller, id, username) ==
  /\ NextFree(r)
  /\ LET auth == Authenticate(caller, AllOk)
         gate == IF route = "viewer" THEN RequireAdmin(auth.role) ELSE 0
         code == IF auth.code # 0 THEN auth.code
                 ELSE IF gate # 0 THEN gate
                 ELSE IF route = "viewer" /\ ~supabaseAdmin THEN 500
                 ELSE IF ~Truthy(username) THEN 400
                 ELSE 0
     IN inflight' = [inflight EXCEPT ![r] =
                       [NoRequest EXCEPT !.pc = IF code = 0 THEN "check" ELSE "done",
                                         !.op = route, !.caller = caller,
                                         !.target = IF route = "viewer" THEN id ELSE caller,
                                         !.username = username, !.code = code]]
  /\ UNCHANGED <<usernames, retry, supabaseAdmin, storeFaults, authUsers, profiles,
                 orders, nextOrderId, notifications, nextNotificationId, now, history,
                 nextHistoryId, session, res>>

\* the select that looks for the username; only router.put('/viewers/:id')
\* sends it with the service-role client
CheckUsername(r) ==
  LET q == inflight[r]
      seen(u) == \/ q.op = "viewer"
                 \/ ProfileSelectPolicy(session, u)
      existingUser ==
        \E u \in UserIds :
          /\ usernames[u] = q.username /\ seen(u)
          /\ q.op \in SignUpRoutes \/ u # q.target
  IN /\ q.pc = "check"
     /\ inflight' =
          IF existingUser
            THEN [inflight EXCEPT ![r].code = 400, ![r].pc = "done"]
          ELSE IF q.op \in {"registerAdmin", "createViewer"} /\ ~supabaseAdmin
            THEN [inflight EXCEPT ![r].code = 500, ![r].pc = "done"]
          ELSE [inflight EXCEPT ![r].pc = "write"]
     /\ UNCHANGED <<usernames, retry, supabaseAdmin, storeFaults, authUsers, profiles,
                    orders, nextOrderId, notifications, nextNotificationId, now,
                    history, nextHistoryId, session, res>>

\* signUp / createUser of a sign-up route: handle_new_user inserts the
\* profile in the transaction that inserts the identity, so a refused
\* insert leaves no identity; signedIn tells whether signUp returns a session
SignUp(r, signedIn) ==
  LET q == inflight[r]
      created == /\ q.target \notin authUsers
                 /\ UsernameUnique(q.target, q.username)
      role == IF q.op = "registerAdmin" THEN "admin" ELSE "viewer"
  IN /\ q.pc = "write" /\ q.op \in SignUpRoutes
     /\ authUsers' = IF created THEN authUsers \cup {q.target} ELSE authUsers
     /\ profiles' = IF created THEN [profiles EXCEPT ![q.target] = HandleNewUser(role)]
                    ELSE profiles
     /\ usernames' = IF created THEN [usernames EXCEPT ![q.target] = q.username]
                     ELSE usernames
     /\ session' = IF created /\ q.op = "register" /\ signedIn THEN q.target ELSE session
     /\ inflight' =
          IF created THEN [inflight EXCEPT ![r].wrote = 1, ![r].pc = "confirm"]
          ELSE [inflight EXCEPT ![r].insertError = TRUE, ![r].code = 400,
                                ![r].pc = "done"]
     /\ UNCHANGED <<retry, supabaseAdmin, storeFaults, orders, nextOrderId,
                    notifications, nextNotificationId, now, history, nextHistoryId,
                    res>>

\* the update of the new profile that ends a sign-up route, its error only
\* logged; register sends it with the anon-key client
ConfirmProfile(r) ==
  LET q == inflight[r]
      visible == /\ profiles[q.target] # NoRow
                 /\ q.op = "register" => ProfileUpdatePolicy(session, q.target)
      stored == visible /\ UsernameUnique(q.target, q.username)
  IN /\ q.pc = "confirm"
     /\ usernames' = IF stored THEN [usernames EXCEPT ![q.target] = q.username]
                     ELSE usernames
     /\ inflight' = [inflight EXCEPT ![r].code = 201, ![r].pc = "done"]
     /\ UNCHANGED <<retry, supabaseAdmin, storeFaults, authUsers, profiles, orders,
                    nextOrderId, notifications, nextNotificationId, now, history,
                    nextHistoryId, session, res>>

\* the update of router.put('/profile') and router.put('/viewers/:id'):
\* no row (hidden or absent) and a refused update both answer 400
Rename(r) ==
  LET q == inflight[r]
      visible == /\ q.target \in UserIds /\ profiles[q.target] # NoRow
                 /\ q.op = "profile" => ProfileUpdatePolicy(session, q.target)
      stored == visible /\ UsernameUnique(q.target, q.username)
  IN /\ q.pc = "write" /\ q.op \in {"profile", "viewer"}
     /\ usernames' = IF stored THEN [usernames EXCEPT ![q.target] = q.username]
                     ELSE usernames
     /\ inflight' =
          IF stored THEN [inflight EXCEPT ![r].wrote = 1, ![r].code = 200, ![r].pc = "done"]
          ELSE [inflight EXCEPT ![r].insertError = visible, ![r].code = 400,
                                ![r].pc = "done"]
     /\ UNCHANGED <<retry, supabaseAdmin, storeFaults, authUsers, profiles, orders,
                    nextOrderId, notifications, nextNotificationId, now, history,
                    nextHistoryId, session, res>>

\* ------------------------------------------------------------ retry loops
\* const maxRetries = 3, and let retries = 3 of the handlers
maxRetries == 3

\* what one attempt of an external call ends in: a value (a response, or a
\* result object that may carry an error), or an exception
Thrown == {"AbortError", "fetch failed", "ECONNRESET", "TypeError"}

AttemptOutcomes == {"value"} \cup Thrown

\* error?.name === 'AbortError' || error?.message?.includes('fetch')
\*   || error?.code === 'ECONNRESET'
IsNetworkError(error) == error \in {"AbortError", "fetch failed", "ECONNRESET"}

\* the loops: the fetch of the service-role client, and the loops of login
\* (profile lookup), register-admin and create-viewer (createUser)
HandlerLoops == {"login", "registerAdmin", "createViewer"}

Loops == {"fetch"} \cup HandlerLoops

\* a loop: the attempts made, the loop counter, the exceptions caught, the
\* waits in milliseconds, and how it stands (running, returned a value, threw
\* to its caller, or answered 500)
RetryState(loop, made, counter, errors, waits, state) ==
  [loop |-> loop, made |-> made, counter |-> counter, errors |-> errors,
   waits |-> waits, state |-> state]

NoRetry == RetryState("none", 0, 0, <<>>, <<>>, "idle")

\* a request reaches one of the loops; no other loop is running
StartLoop(loop) ==
  /\ supabaseAdmin
  /\ retry.state # "running"
  /\ retry' = RetryState(loop, 0, IF loop = "fetch" THEN 0 ELSE maxRetries,
                         <<>>, <<>>, "running")
  /\ UNCHANGED <<usernames, inflight, supabaseAdmin, storeFaults, authUsers, profiles,
                 orders, nextOrderId, notifications, nextNotificationId, now, history,
                 nextHistoryId, session, res>>

\* global.fetch of the service-role client: one iteration of its for loop,
\* attempt being the loop counter
FetchAttempt(outcome) ==
  /\ retry.loop = "fetch" /\ retry.state = "running"
  /\ retry.counter < maxRetries
  /\ retry' =
       LET attempt == retry.counter
           caught == Append(retry.errors, outcome)
       IN IF outcome = "value"
            THEN [retry EXCEPT !.made = @ + 1, !.state = "returned"]
          ELSE IF attempt = maxRetries - 1
            THEN [retry EXCEPT !.made = @ + 1, !.errors = caught, !.state = "thrown"]
          ELSE IF IsNetworkError(outcome)
            THEN [retry EXCEPT !.made = @ + 1, !.errors = caught,
                               !.waits = Append(@, 1000 * 2 ^ attempt),
                               !.counter = attempt + 1]
          ELSE [retry EXCEPT !.made = @ + 1, !.errors = caught, !.state = "thrown"]
  /\ UNCHANGED <<usernames, inflight, supabaseAdmin, storeFaults, authUsers, profiles,
                 orders, nextOrderId, notifications, nextNotificationId, now, history,
                 nextHistoryId, session, res>>

\* the while (retries > 0) loop of a handler: one iteration, retries being
\* the loop counter
HandlerAttempt(outcome) ==
  /\ retry.loop \in HandlerLoops /\ retry.state = "running"
  /\ retry.counter > 0
  /\ retry' =
       LET retries == retry.counter - 1
           caught == Append(retry.errors, outcome)
       IN IF outcome = "value"
            THEN [retry EXCEPT !.made = @ + 1, !.state = "returned"]
          ELSE IF retries = 0
            THEN [retry EXCEPT !.made = @ + 1, !.errors = caught, !.counter = retries,
                               !.state = "failed"]
          ELSE [retry EXCEPT !.made = @ + 1, !.errors = caught, !.counter = retries,
                             !.waits = Append(@, 1000 * (4 - retries))]
  /\ UNCHANGED <<usernames, inflight, supabaseAdmin, storeFaults, authUsers, profiles,
                 orders, nextOrderId, notifications, nextNotificationId, now, history,
                 nextHistoryId, session, res>>

\* the database clock advances; the step handles no request
Tick ==
  /\ now < MaxTime
  /\ now' = now + 1
  /\ res' = Idle
  /\ UNCHANGED <<usernames, inflight, retry, supabaseAdmin, storeFaults, authUsers,
                 profiles, orders, nextOrderId, notifications, nextNotificationId,
                 history, nextHistoryId, session>>

\* ------------------------------------------------------------ specification
\* two admins and a viewer have signed up; no order has been placed
InitStore ==
  /\ supabaseAdmin \in BOOLEAN
  /\ authUsers = UserIds
  /\ profiles = [u \in UserIds |-> IF u = "u3" THEN "viewer" ELSE "admin"]
  /\ orders = <<>>
  /\ nextOrderId = 1
  /\ notifications = {}
  /\ nextNotificationId = 1
  /\ now = 0
  /\ history = {}
  /\ nextHistoryId = 1
  /\ session = NoToken
  /\ retry = NoRetry
  /\ usernames = [u \in UserIds |-> IF profiles[u] = NoRow THEN NoRow ELSE UsernameOf(u)]
  /\ inflight = [r \in Requests |-> NoRequest]
  /\ res = Idle

Init == InitStore /\ storeFaults = FALSE

InitFaults == InitStore /\ storeFaults = TRUE

\* an admin and a second identity have signed up; the second identity may
\* have no profile row (it signed up before on_auth_user_created existed)
InitUsers ==
  /\ supabaseAdmin \in BOOLEAN
  /\ storeFaults = FALSE
  /\ authUsers = {"u1", "u3"}
  /\ profiles \in {[u \in UserIds |-> IF u = "u1" THEN "admin"
                                     ELSE IF u = "u3" THEN r ELSE NoRow] :
                     r \in {"viewer", NoRow}}
  /\ orders = <<>>
  /\ nextOrderId = 1
  /\ notifications = {}
  /\ nextNotificationId = 1
  /\ now = 0
  /\ history = {}
  /\ nextHistoryId = 1
  /\ session = NoToken
  /\ retry = NoRetry
  /\ usernames = [u \in UserIds |-> IF profiles[u] = NoRow THEN NoRow ELSE UsernameOf(u)]
  /\ inflight = [r \in Requests |-> NoRequest]
  /\ res = Idle

Next ==
  \/ Tick
  \/ \E caller \in Callers, body \in InsertBodies, env \in Envs :
       CreateOrder(caller, body, env)
  \/ \E caller \in Callers, id \in OrderIds, body \in UpdateBodies, env \in Envs :
       UpdateOrder(caller, id, body, env)
  \/ \E caller \in Callers, id \in OrderIds, env \in Envs : DeleteOrder(caller, id, env)

\* the external services never fail, and no identity is removed
Spec == Init /\ [][Next]_vars

NextFaults ==
  \/ \E caller \in Callers, body \in PlainInsertBodies, env \in Envs :
       CreateOrder(caller, body, env)
  \/ \E caller \in Callers, id \in OrderIds, body \in MoveBodies, env \in Envs :
       UpdateOrder(caller, id, body, env)
  \/ \E caller \in Callers, id \in OrderIds, env \in Envs : DeleteOrder(caller, id, env)
  \/ \E caller \in Callers, id \in UserIds, env \in Envs : DeleteViewer(caller, id, env)

\* calls to the external services may fail and identities may be removed,
\* all within one tick of the database clock
SpecFaults == InitFaults /\ [][NextFaults]_vars

NextEdit ==
  \/ Tick
  \/ \E caller \in Callers, body \in InsertBodies, env \in Envs :
       CreateOrder(caller, body, env)
  \/ \E caller \in Callers, id \in OrderIds, body \in EditBodies, env \in Envs :
       UpdateOrder(caller, id, body, env)
  \/ \E caller \in Callers, id \in OrderIds, env \in Envs : DeleteOrder(caller, id, env)

\* the external services never fail; updates rewrite customer_name and
\* order_details
SpecEdit == Init /\ [][NextEdit]_vars

NextInbox ==
  \/ \E caller \in Callers, body \in PlainInsertBodies : CreateOrder(caller, body, AllOk)
  \/ \E caller \in Callers, id \in OrderIds, body \in MoveBodies :
       UpdateOrder(caller, id, body, AllOk)
  \/ \E caller \in Callers, unreadOnly \in BOOLEAN : ListNotifications(caller, unreadOnly)
  \/ \E caller \in Callers, id \in 1..MaxNotifications : MarkRead(caller, id)
  \/ \E caller \in Callers, id \in 1..MaxNotifications : DeleteNotification(caller, id)
  \/ \E caller \in Callers, body \in NotificationBodies : PostNotification(caller, body)
  \/ \E caller \in Callers, id \in {NullId} \cup OrderIds : NotifyAdminReady(caller, id)

\* orders are moved and the inbox routes are called; the external services
\* never fail
SpecInbox == Init /\ [][NextInbox]_vars

NextHistory ==
  \/ Tick
  \/ \E caller \in Callers, body \in PlainInsertBodies : CreateOrder(caller, body, AllOk)
  \/ \E caller \in Callers, id \in OrderIds, body \in MoveBodies :
       UpdateOrder(caller, id, body, AllOk)
  \/ \E caller \in Callers, id \in OrderIds : DeleteOrder(caller, id, AllOk)
  \/ \E caller \in Callers, id \in UserIds : DeleteViewer(caller, id, AllOk)
  \/ \E caller \in Callers, body \in HistoryBodies : AppendHistory(caller, body)
  \/ \E caller \in Callers, id \in {NullId} \cup OrderIds : ListHistory(caller, id)
  \/ \E user \in UserIds, password \in {"12345", "123456"} : Login(user, password)

\* history records are appended and listed while orders and identities come
\* and go; the external services never fail
SpecHistory == Init /\ [][NextHistory]_vars

NextAuth ==
  \/ \E caller \in AnyCallers, body \in PlainInsertBodies :
       CreateOrder(caller, body, AllOk)
  \/ \E caller \in AnyCallers, id \in OrderIds, body \in MoveBodies :
       UpdateOrder(caller, id, body, AllOk)
  \/ \E caller \in AnyCallers, id \in OrderIds : DeleteOrder(caller, id, AllOk)
  \/ \E caller \in AnyCallers, id \in UserIds : DeleteViewer(caller, id, AllOk)

\* requests come with every kind of credential, from identities with and
\* without a profile row and from removed identities; the external services
\* never fail
SpecAuth == InitUsers /\ [][NextAuth]_vars

NextUsers ==
  \/ Tick
  \/ \E caller \in Callers, body \in PlainInsertBodies :
       CreateOrder(caller, body, AllOk)
  \/ \E caller \in Callers, id \in UserIds : DeleteViewer(caller, id, AllOk)
  \/ \E body \in RegisterBodies, signedIn \in BOOLEAN : Register(body, signedIn)
  \/ \E caller \in AnyCallers, body \in RegisterBodies : RegisterAdmin(caller, body)
  \/ \E caller \in Callers, id \in UserIds, role \in {"viewer", "admin"} :
       UpdateProfileRole(caller, id, role)

\* identities sign up, change roles and are removed; the external services
\* never fail
SpecUsers == InitUsers /\ [][NextUsers]_vars

\* one admin has signed up and no one else
InitNames ==
  /\ supabaseAdmin = TRUE
  /\ storeFaults = FALSE
  /\ authUsers = {"u1"}
  /\ profiles = [u \in UserIds |-> IF u = "u1" THEN "admin" ELSE NoRow]
  /\ usernames = [u \in UserIds |-> IF u = "u1" THEN UsernameOf(u) ELSE NoRow]
  /\ orders = <<>>
  /\ nextOrderId = 1
  /\ notifications = {}
  /\ nextNotificationId = 1
  /\ now = 0
  /\ history = {}
  /\ nextHistoryId = 1
  /\ session = NoToken
  /\ retry = NoRetry
  /\ inflight = [r \in Requests |-> NoRequest]
  /\ res = Idle

NextNames ==
  \/ \E r \in Requests, route \in SignUpRoutes, body \in SignUpBodies :
       ReceiveSignUp(r, route, body)
  \/ \E r \in Requests, route \in {"profile", "viewer"}, caller \in UserIds,
         id \in UserIds, username \in {Undefined} \cup Names :
       ReceiveRename(r, route, caller, id, username)
  \/ \E r \in Requests : CheckUsername(r)
  \/ \E r \in Requests, signedIn \in BOOLEAN : SignUp(r, signedIn)
  \/ \E r \in Requests : ConfirmProfile(r)
  \/ \E r \in Requests : Rename(r)
  \/ Login("u1", "123456")

\* sign-ups and renames are handled at the same time, their store calls
\* interleaved; the anon-key client may carry the session of a login
SpecNames == InitNames /\ [][NextNames]_vars

\* the state of Init with the service-role key configured
InitRace == Init /\ supabaseAdmin = TRUE

NextRace ==
  \/ \E body \in PlainInsertBodies : CreateOrder("u1", body, AllOk)
  \/ \E r \in Requests, caller \in {"u1", "u3"}, id \in OrderIds, body \in RaceBodies :
       ReceiveUpdate(r, caller, id, body)
  \/ \E r \in Requests : ReadOldOrder(r)
  \/ \E r \in Requests : WriteOrder(r)
  \/ \E r \in Requests : LookupAdmins(r)
  \/ \E r \in Requests : InsertNotifications(r)
  \/ \E id \in OrderIds : DeleteOrder("u1", id, AllOk)
  \/ \E body \in HistoryBodies : AppendHistory("u1", body)

\* update requests on an order are handled at the same time, their store
\* calls interleaved with each other, with the order's deletion and with
\* history appends; the service-role client is configured
SpecRace == InitRace /\ [][NextRace]_vars

NextRetry ==
  \/ \E loop \in Loops : StartLoop(loop)
  \/ \E outcome \in AttemptOutcomes : FetchAttempt(outcome)
  \/ \E outcome \in AttemptOutcomes : HandlerAttempt(outcome)

\* requests reach the retry loops one at a time, and every attempt of an
\* external call may return or throw
SpecRetry == Init /\ [][NextRetry]_vars

\* ------------------------------------------------------------------ claims
\* the row of the order the step's request addresses, before and after
Old == orders[res'.id]
New == orders'[res'.id]

\* the notifications rows the step inserts
Inserted == notifications' \ notifications

\* C1: every order has completed_at non-null if and only if its status is
\* completed (stated as the claim; the code breaks it).
C1_CompletedAtIffCompleted ==
  \A id \in DOMAIN orders :
    (orders[id].completed_at # NullTime) <=> (orders[id].status = "completed")

\* C2: an accepted update that changes the status creates exactly one
\* notification referencing the order for every admin profile, the acting
\* admin included, and none for anyone else.
C2_FanOutToEveryAdmin ==
  [][(/\ res'.op = "update" /\ res'.code = 200
      /\ Truthy(res'.body.status) /\ res'.body.status # Old.status)
     => /\ \A u \in UserIds :
             profiles[u] = "admin"
               => Cardinality({n \in Inserted : n.user_id = u /\ n.order_id = res'.id}) = 1
        /\ \A n \in Inserted : profiles[n.user_id] = "admin" /\ n.order_id = res'.id]_vars

\* an admin has just moved an order, and both admins, the mover included,
\* hold a notification of that move
C2_Witness ==
  /\ res.op = "update" /\ res.code = 200 /\ res.caller = "u1" /\ res.role = "admin"
  /\ \A u \in {"u1", "u2"} :
       \E n \in notifications :
         /\ n.user_id = u /\ n.order_id = res.id
         /\ n.id >= nextNotificationId - 2
         /\ n.title = <<"Order Moved", ToUpperCase(res.body.status)>>

\* C3: an update whose payload carries the order's current status creates
\* no notification, whoever sends it and whatever else the payload carries
\* (stated as the claim; the handler breaks it when its read of the old row
\* fails and the write succeeds).
C3_SameStatusNoNotification ==
  [][(/\ res'.op = "update" /\ res'.id \in DOMAIN orders
      /\ Truthy(res'.body.status) /\ res'.body.status = Old.status)
     => notifications' = notifications]_vars

\* C4: whenever the store applied the update, the caller gets a success
\* response carrying the updated order and the row stays updated, whatever
\* became of the fan-out.
C4_FanOutFailureSwallowed ==
  [][(/\ res'.op = "update" /\ res'.id \in DOMAIN orders
      /\ Present(UpdateData(res'.role = "admin", res'.body)) # {}
      /\ res'.env.write = "ok")
     => /\ res'.code = 200
        /\ res'.order = <<New>>
        /\ New.updated_at = now
        /\ Truthy(res'.body.status) => New.status = res'.body.status]_vars

\* a move was answered with 200 although a store call of its fan-out threw,
\* and admins that got no notification exist
C4_Witness ==
  /\ res.op = "update" /\ res.code = 200 /\ res.order # <<>>
  /\ res.order[1].status = res.body.status
  /\ res.env.insert = "throw"
  /\ \E u \in UserIds : profiles[u] = "admin"
  /\ notifications = {}

\* C5: a viewer's create request is answered 403 and inserts nothing; an
\* admin's with non-empty customer_name and order_details succeeds, with
\* status incoming when the body gives none.
C5_CreateIsAdminOnly ==
  [][(res'.op = "create")
     => /\ res'.role = "viewer" => res'.code = 403 /\ orders' = orders
        /\ (/\ res'.role = "admin"
            /\ Truthy(res'.body.customer_name) /\ Truthy(res'.body.order_details))
           => /\ res'.code = 201
              /\ res'.id \notin DOMAIN orders
              /\ DOMAIN orders' = DOMAIN orders \cup {res'.id}
              /\ res'.order = <<New>>
              /\ New.customer_name = res'.body.customer_name
              /\ New.order_details = res'.body.order_details
              /\ res'.body.status = Undefined => New.status = "incoming"]_vars

\* an admin has created an order without giving a status
C5_Witness ==
  /\ res.op = "create" /\ res.code = 201 /\ res.role = "admin"
  /\ res.body.status = Undefined
  /\ res.id \in DOMAIN orders /\ orders[res.id].status = "incoming"

\* C6: a payload of completed_at alone is answered 400 "No fields to update"
\* and writes nothing for a viewer; for an admin it is accepted and written.
C6_CompletedAtOnly ==
  [][(res'.op = "update" /\ Present(res'.body) = {"completed_at"})
     => /\ res'.role = "viewer" => res'.code = 400 /\ orders' = orders
        /\ (res'.role = "admin" /\ res'.id \in DOMAIN orders)
           => /\ res'.code = 200
              /\ New.completed_at = res'.body.completed_at]_vars

\* a viewer has sent completed_at alone for an existing order: 400
C6_Witness ==
  /\ res.op = "update" /\ res.role = "viewer" /\ res.code = 400
  /\ Present(res.body) = {"completed_at"}
  /\ res.id \in DOMAIN orders

C8_UpdateIsAdminOnly ==
  [][(res'.op = "update" /\ res'.role = "viewer")
     => res'.code # 200 /\ orders' = orders]_vars

\* C9: an accepted update leaves every column the payload does not carry as
\* it was, except updated_at and the derived completed_at; id, created_at and
\* created_by never change, and no other row does.
C9_MergePatch ==
  [][(res'.op = "update" /\ res'.code = 200)
     => /\ DOMAIN orders' = DOMAIN orders
        /\ \A j \in DOMAIN orders \ {res'.id} : orders'[j] = orders[j]
        /\ \A f \in DOMAIN res'.body \ (Present(res'.body) \cup {"completed_at"}) :
             New[f] = Old[f]
        /\ New.id = Old.id
        /\ New.created_at = Old.created_at
        /\ New.created_by = Old.created_by
        /\ New.updated_at = now
        /\ (New.completed_at # Old.completed_at)
           => \/ "completed_at" \in Present(res'.body)
              \/ New.status # Old.status]_vars

\* an update without a location was accepted for an order that keeps one
C9_Witness ==
  /\ res.op = "update" /\ res.code = 200
  /\ res.body.location = Undefined /\ res.body.status # Undefined
  /\ orders[res.id].location = "Main St"

\* C10: deleting an order id that is absent is answered NotFound (stated as
\* the claim; the code answers 200).
C10_DeleteAbsentNotFound ==
  [][(res'.op = "delete" /\ res'.role = "admin" /\ res'.id \notin DOMAIN orders)
     => res'.code = 404]_vars

\* C11 as stated: every update addressed to an id that names no order is
\* answered 404, changes no order and creates no notification (the code
\* answers 400 when the payload leaves nothing to write).
C11_UpdateAbsentNotFound ==
  [][(/\ res'.op = "update" /\ res'.id \in OrderIds /\ res'.id \notin DOMAIN orders)
     => /\ res'.code = 404
        /\ orders' = orders
        /\ notifications' = notifications]_vars

\* C11: an update that carries at least one field its caller may write and
\* is addressed to an id that names no order is answered 404, changes no
\* order and creates no notification.
C11_UpdateAbsentNotFoundWithFields ==
  [][(/\ res'.op = "update" /\ res'.id \in OrderIds /\ res'.id \notin DOMAIN orders
      /\ Present(UpdateData(res'.role = "admin", res'.body)) # {})
     => /\ res'.code = 404
        /\ orders' = orders
        /\ notifications' = notifications]_vars

\* a move of an order that was deleted before has been answered 404
C11_Witness ==
  /\ res.op = "update" /\ res.code = 404 /\ Truthy(res.body.status)
  /\ res.id \in OrderIds /\ res.id \notin DOMAIN orders
  /\ nextOrderId > 1

\* C12: a viewer's delete request is answered 403 and removes nothing, and
\* every step that removes an order is a delete request whose caller's
\* resolved role is admin.
C12_DeleteIsAdminOnly ==
  [][/\ (res'.op = "delete" /\ res'.role = "viewer")
        => res'.code = 403 /\ orders' = orders
     /\ (DOMAIN orders' # DOMAIN orders /\ DOMAIN orders' \subseteq DOMAIN orders)
        => res'.op = "delete" /\ res'.role = "admin" /\ res'.code = 200]_vars

\* a viewer's delete has been answered 403 while an order is stored
C12_Witness ==
  /\ res.op = "delete" /\ res.role = "viewer" /\ res.code = 403
  /\ DOMAIN orders # {}

\* C13: an admin's create request without a non-empty customer_name and
\* order_details is answered 400 and inserts nothing, and no step leaves a
\* stored order with an empty customer_name or order_details (stated as the
\* claim; an update that carries an empty string breaks it).
C13_RequiredTextsNeverEmpty ==
  [][/\ (/\ res'.op = "create" /\ res'.role = "admin"
         /\ ~(Truthy(res'.body.customer_name) /\ Truthy(res'.body.order_details)))
        => res'.code = 400 /\ orders' = orders
     /\ \A id \in DOMAIN orders' :
          Truthy(orders'[id].customer_name) /\ Truthy(orders'[id].order_details)]_vars

\* C14: a request to a route behind authenticate is answered 401 and touches
\* no table when it carries no bearer header, a malformed one, or a token
\* the identity provider rejects; when the token verifies and the identity
\* has no profile row, the request goes on with role viewer.
C14_IdentityResolution ==
  [][(res'.op \in {"create", "update", "delete", "deleteViewer"})
     => /\ (res'.caller \in {NoToken, BadHeader, BadToken} \/ res'.caller \notin authUsers)
           => /\ res'.code = 401
              /\ UNCHANGED <<orders, notifications, history, profiles, authUsers>>
        /\ (/\ res'.caller \in authUsers /\ supabaseAdmin
            /\ profiles[res'.caller] = NoRow)
           => /\ res'.role = "viewer"
              /\ res'.op \in {"create", "delete", "deleteViewer"} => res'.code = 403
              /\ (res'.op = "update" /\ res'.id \in DOMAIN orders)
                 => res'.code = 200 /\ New.status = res'.body.status]_vars

\* an identity without a profile row has moved an order
C14_Witness ==
  /\ res.op = "update" /\ res.code = 200 /\ res.role = "viewer"
  /\ res.caller = "u3" /\ "u3" \in authUsers /\ profiles["u3"] = NoRow
  /\ orders[res.id].status = res.body.status

\* C15: no request of a caller whose role is viewer, other than an order
\* update, adds a row to notifications (stated as the claim; the
\* notify-admin-ready route breaks it).
C15_ViewerNeverNotifies ==
  [][(res'.role = "viewer" /\ res'.op # "update")
     => notifications' \subseteq notifications]_vars

\* C16: the list route returns stored rows of its caller only; a mark-read
\* or delete request for a notification of another user is answered 404 and
\* changes no notification; and no step takes a read flag from true to false.
C16_OwnerOnly ==
  [][/\ (res'.op = "list" /\ res'.code = 200)
        => \A i \in 1..Len(res'.order) :
             res'.order[i] \in notifications /\ res'.order[i].user_id = res'.caller
     /\ (/\ res'.op \in {"markRead", "deleteNotification"}
         /\ \E n \in notifications : n.id = res'.id /\ n.user_id # res'.caller)
        => res'.code = 404 /\ notifications' = notifications
     /\ \A n \in notifications, m \in notifications' :
          (n.id = m.id /\ n.read) => m.read]_vars

\* a user has asked to mark another user's unread notification as read, was
\* answered 404, and the notification is still unread
C16_Witness ==
  /\ res.op = "markRead" /\ res.code = 404 /\ res.caller \in UserIds
  /\ \E n \in notifications : n.id = res.id /\ n.user_id # res.caller /\ ~n.read

\* C17: a list for order X that follows an append for X returns the latest
\* appended record of X first, and no step changes or removes a record that
\* was appended (stated as the claim; the cascades of an order delete and of
\* a user delete break the second half, and a list through a client that
\* holds no session breaks the first).
C17_HistoryAppendOnly ==
  [][/\ (/\ res'.op = "listHistory" /\ res'.code = 200 /\ res'.id # NullId
         /\ \E h \in history : h.order_id = res'.id)
        => /\ res'.order # <<>>
           /\ \A h \in history : h.order_id = res'.id => h.id <= res'.order[1].id
     /\ history \subseteq history']_vars

\* C18: an accepted delete of an identity removes that identity and its
\* profile row and no other profile row, removes no order, and leaves every
\* order that identity created stored with created_by NULL and every other
\* order's created_by as it was.
C18_DeleteIdentityFrame ==
  [][(res'.op = "deleteViewer" /\ res'.code = 200)
     => \E id \in authUsers :
          /\ authUsers' = authUsers \ {id}
          /\ profiles' = [profiles EXCEPT ![id] = NoRow]
          /\ DOMAIN orders' = DOMAIN orders
          /\ \A i \in DOMAIN orders :
               orders'[i].created_by =
                 IF orders[i].created_by = id THEN NULL ELSE orders[i].created_by]_vars

\* the identity that created the stored order has been deleted together with
\* its profile row, and the order is still there, created by nobody
C18_Witness ==
  /\ res.op = "deleteViewer" /\ res.code = 200
  /\ "u1" \notin authUsers /\ profiles["u1"] = NoRow
  /\ \E i \in DOMAIN orders : orders[i].created_by = NULL

C20_AdminsMadeByAdmins ==
  [][\A u \in UserIds :
       (profiles[u] = NoRow /\ profiles'[u] = "admin")
         => res'.caller \in authUsers /\ profiles[res'.caller] = "admin"]_vars

\* C21: every notification an accepted status change to a new status creates
\* has type success for completed, warning for declined and order for
\* incoming, accepted and pending, and a title that carries the new status
\* in upper case.
C21_MoveTypeAndTitle ==
  [][(/\ res'.op = "update" /\ res'.code = 200
      /\ Truthy(res'.body.status) /\ res'.body.status # Old.status)
     => \A n \in Inserted :
          /\ n.type = CASE res'.body.status = "completed" -> "success"
                        [] res'.body.status = "declined" -> "warning"
                        [] OTHER -> "order"
          /\ n.title[2] = CASE res'.body.status = "incoming" -> "INCOMING"
                            [] res'.body.status = "accepted" -> "ACCEPTED"
                            [] res'.body.status = "declined" -> "DECLINED"
                            [] res'.body.status = "pending" -> "PENDING"
                            [] res'.body.status = "completed" -> "COMPLETED"]_vars

\* an order has just been declined and an admin holds the warning for it
C21_Witness ==
  /\ res.op = "update" /\ res.code = 200 /\ res.body.status = "declined"
  /\ \E n \in notifications :
       /\ n.order_id = res.id /\ n.type = "warning"
       /\ n.title = <<"Order Moved", "DECLINED">>
       /\ n.id >= nextNotificationId - 2

\* C22: an accepted update whose payload carries no status creates no
\* notification when its caller is a viewer, and when its caller is an admin
\* creates exactly one notification titled "Order Updated" for every admin
\* profile, the caller included, and nothing else.
C22_OrderUpdatedForAdminEdits ==
  [][(res'.op = "update" /\ res'.code = 200 /\ res'.body.status = Undefined)
     => IF res'.role = "admin"
          THEN /\ \A u \in UserIds :
                    profiles[u] = "admin"
                      => Cardinality({n \in Inserted :
                                        /\ n.user_id = u /\ n.order_id = res'.id
                                        /\ n.title = <<"Order Updated">>}) = 1
               /\ \A n \in Inserted :
                    profiles[n.user_id] = "admin" /\ n.title = <<"Order Updated">>
          ELSE notifications' = notifications]_vars

\* an admin has changed the location of an order and both admins hold an
\* "Order Updated" notification for it
C22_Witness ==
  /\ res.op = "update" /\ res.code = 200 /\ res.caller = "u1" /\ res.role = "admin"
  /\ res.body.status = Undefined /\ res.body.location = "Main St"
  /\ \A u \in {"u1", "u2"} :
       \E n \in notifications :
         n.user_id = u /\ n.order_id = res.id /\ n.title = <<"Order Updated">>

C24_UpdatedAtMonotone ==
  [][/\ \A id \in DOMAIN orders \cap DOMAIN orders' :
          orders'[id].updated_at >= orders[id].updated_at
     /\ (res'.op = "update" /\ res'.code = 200)
          => /\ New.updated_at = now
             /\ New.updated_at >= Old.updated_at
             /\ New.updated_at >= New.created_at]_vars

\* an order created at one time has been updated at a later time
C24_Witness ==
  /\ res.op = "update" /\ res.code = 200
  /\ res.id \in DOMAIN orders
  /\ orders[res.id].updated_at = now
  /\ orders[res.id].created_at < orders[res.id].updated_at

C25_BoundedRetryWithBackoff ==
  /\ retry.made <= 3
  /\ retry.state = "running" => \A i \in DOMAIN retry.errors : IsNetworkError(retry.errors[i])
  /\ retry.made = 3 => retry.state # "running"
  /\ \A i \in DOMAIN retry.waits : i > 1 => retry.waits[i] = 2 * retry.waits[i - 1]

\* C26: updates of one order that are under way together are resolved last
\* write wins, column by column: for every column, the stored value is the
\* value of the latest applied UPDATE among those whose payload carries the
\* column, so changes to different columns are all present; and an update
\* is answered with an error only if the order was gone when it wrote.
C26_LastWriteWinsPerField ==
  /\ [](\A i \in DOMAIN orders, f \in TextFields :
          LET W == {r \in Requests : /\ inflight[r].wrote > 0
                                     /\ inflight[r].id = i
                                     /\ inflight[r].updateData[f] # Undefined}
          IN W # {} =>
               \E r \in W :
                 /\ \A q \in W : inflight[q].wrote <= inflight[r].wrote
                 /\ orders[i][f] = inflight[r].updateData[f])
  /\ [][\A r \in Requests :
          (inflight[r].pc = "write" /\ inflight'[r].pc = "done")
            => inflight[r].id \notin DOMAIN orders]_vars

\* two updates that both read the order before either wrote: the first to
\* write set the location, the second the status, and the order shows both
C26_Witness ==
  /\ inflight[1].pc = "done" /\ inflight[1].code = 200 /\ inflight[1].wrote = 1
  /\ inflight[2].pc = "done" /\ inflight[2].code = 200 /\ inflight[2].wrote = 2
  /\ inflight[1].id = inflight[2].id /\ inflight[1].id \in DOMAIN orders
  /\ inflight[1].updateData.location = "Main St"
  /\ inflight[2].updateData.status = "pending"
  /\ inflight[2].oldOrder # <<>> /\ inflight[2].oldOrder[1].location = NULL
  /\ orders[inflight[1].id].location = "Main St"
  /\ orders[inflight[1].id].status = "pending"

\* C27: under any interleaving of update requests on one order, a request
\* fans out a status notification only if the status stored immediately
\* before its UPDATE differed from the status it wrote (stated as the claim;
\* the handler compares with the status it read in an earlier store call).
C27_FanOutOnlyOnRealTransition ==
  \A r \in Requests :
    (\E n \in inflight[r].rows : n.title[1] = "Order Moved")
      => inflight[r].before # inflight[r].updateData.status

\* C30: in every reachable state every notification's order_id is null or
\* names an existing order and every history record's order_id names an
\* existing order: deleting an order takes its notifications and history
\* records with it, and a fan-out or a history append that meets the deletion
\* of its order adds no row that names it.
C30_ReferentialIntegrity ==
  /\ \A n \in notifications : n.order_id = NullId \/ n.order_id \in DOMAIN orders
  /\ \A h \in history : h.order_id \in DOMAIN orders

\* an update wrote its order and prepared a fan-out, the order was deleted,
\* and the insert of the fan-out was refused: no notification names the order
C30_Witness ==
  \E r \in Requests :
    /\ inflight[r].pc = "done" /\ inflight[r].code = 200
    /\ inflight[r].rows # {} /\ inflight[r].insertError
    /\ inflight[r].id \notin DOMAIN orders
    /\ \A n \in notifications : n.order_id # inflight[r].id

\* C28: under any interleaving of register, register-admin, create-viewer,
\* profile-update and viewer-update requests, no two user profiles hold the
\* same username, although each handler looks for the username in a store
\* call of its own before it writes.
C28_UsernamesUnique ==
  \A u, v \in UserIds :
    (u # v /\ usernames[u] # NoRow /\ usernames[v] # NoRow)
      => usernames[u] # usernames[v]

\* two sign-ups asked for the same username and both found it free; the
\* first created its identity and the store refused the second
C28_Witness ==
  \E r, q \in Requests :
    /\ r # q
    /\ inflight[r].op \in SignUpRoutes /\ inflight[q].op \in SignUpRoutes
    /\ inflight[r].username = inflight[q].username
    /\ inflight[r].pc = "done" /\ inflight[r].code = 201
    /\ usernames[inflight[r].target] = inflight[r].username
    /\ inflight[q].pc = "done" /\ inflight[q].code = 400 /\ inflight[q].insertError
    /\ inflight[q].target \notin authUsers

====
